---- MODULE Spec2Model ----
(***************************************************************************)
(* Yota Signal Bot: the trade store and its ingestion handlers             *)
(* (src/backend/db.ts, src/backend/server.ts) and the agent memory         *)
(* replica with its merge (src/unnamed/part_004, MemoryService, and the    *)
(* server's /api/memory/sync).                                             *)
(*                                                                         *)
(* Conventions.  A nullable or optional number is a tuple: <<>> is SQL     *)
(* NULL / a field the request does not carry, <<v>> is the number v.       *)
(* A nullable or optional string is the string itself, "NULL" or "ABSENT". *)
(* Prices are integers; entry prices are 100 so that pnl / entry * 100 is  *)
(* exact.                                                                  *)
(***************************************************************************)
EXTENDS Integers, Sequences, FiniteSets, TLC

VARIABLES
    trades,     \* table trades: a set of rows (db.ts:19-38)
    now,        \* Date.now()
    driver,     \* what the SQLite driver does with a bind object that lacks a named parameter
    req,        \* the request handled last: its route, type, secret and trade id
    out,        \* what the last handler answered, broadcast and recorded
    local,      \* per client, the AgentMemory in localStorage (getMemory / saveMemory)
    cloud,      \* the agent_memory row 'main' of the server: <<>> or <<row>>
    sync,       \* per client, syncInProgress and the syncToCloud call in flight
    lastSyncTime, \* per client, MemoryService.lastSyncTime
    calls,      \* number of calls made on the MemoryService of the clients so far
    signals,    \* table signals: a set of rows (db.ts:41-55)
    hub,        \* the SSE side of the server: sseClients, the heartbeat intervals and
                \* what has been written to each response so far
    stat,       \* a per-strategy stats row and the weight the server and the client
                \* derived from it
    conn        \* the connection of the client's TradeService: its eventSource,
                \* data.connected, reconnectAttempts and the pending reconnect timers

tradeSide == <<trades, driver, req, out, signals, hub, stat, conn>>
memorySide == <<local, cloud, sync, lastSyncTime, calls>>
vars == <<trades, now, driver, req, out, local, cloud, sync, lastSyncTime, calls, signals, hub, stat, conn>>

----------------------------------------------------------------------------
(* Bounds *)

MaxNow == 2
\* calls the application and its timer make on a client's MemoryService
MaxCalls == 3

----------------------------------------------------------------------------
(* JavaScript and SQL values *)

None == <<>>
Some(v) == <<v>>
NULL == "NULL"
ABSENT == "ABSENT"

\* a || d on an optional number: undefined, null and 0 are falsy
OrNum(a, d) == IF a = None \/ a[1] = 0 THEN d ELSE a[1]
\* a || null on an optional number, stored in a nullable column
OrNull(a) == IF a = None \/ a[1] = 0 THEN None ELSE a
\* a || d on an optional string
OrStr(a, d) == IF a = ABSENT THEN d ELSE a
\* a ?? d on optional numbers
Nullish(a, d) == IF a = None THEN d ELSE a
\* truthiness of an optional number
Truthy(a) == a # None /\ a[1] # 0

XpAmounts == {80, 475}

Directions == {"LONG", "SHORT"}
Closed == {"WIN", "LOSS", "BREAKEVEN"}

----------------------------------------------------------------------------
(* Requests.  A request body carries every field of the handlers' payload; *)
(* a field the caller left out is None / ABSENT.  The bodies are the shape *)
(* the handlers are written for: id, pair, direction and entryPrice are    *)
(* present where the handler reads them and outcome is within the enum.    *)

TradeIds == {"t1"}
WEBHOOK_SECRET == "yota-dev-secret"
Secrets == {WEBHOOK_SECRET, "wrong"}

Blank ==
    [id |-> ABSENT, pair |-> ABSENT, direction |-> ABSENT, entryPrice |-> None,
     exitPrice |-> None, stopLoss |-> None, takeProfit |-> None, leverage |-> None,
     pnl |-> None, pnlPercent |-> None, outcome |-> ABSENT, strategy |-> ABSENT,
     notes |-> ABSENT, checklistGrade |-> ABSENT, timestamp |-> None]

\* what a caller says about the result: nothing, or a pnl with its outcome
Reported == { <<None, ABSENT>>, <<Some(-20), "LOSS">> }

\* bodies of POST /api/trades; a second trade, submitted closed, gives the
\* statistics a second row
PostBodies ==
    { [Blank EXCEPT !.id = i, !.pair = "BTCUSD", !.direction = "LONG", !.entryPrice = Some(100),
                    !.exitPrice = x, !.leverage = Some(2), !.pnl = po[1], !.outcome = po[2]] :
        i \in TradeIds, x \in {None, Some(110)}, po \in Reported \cup { <<None, "OPEN">> } }
    \cup { [Blank EXCEPT !.id = "t2", !.pair = "ETHUSD", !.direction = "LONG",
                         !.entryPrice = Some(100), !.exitPrice = Some(110), !.pnl = Some(30),
                         !.outcome = "WIN", !.strategy = "Silver Bullet"] }

\* payload.trade of POST /api/webhook/trade, per payload.type
OpenBodies ==
    { [Blank EXCEPT !.id = i, !.pair = "BTCUSD", !.direction = "LONG", !.entryPrice = Some(100),
                    !.leverage = Some(2)] :
        i \in TradeIds }

CloseBodies ==
    { [Blank EXCEPT !.id = i, !.pair = "BTCUSD", !.direction = d, !.entryPrice = Some(100),
                    !.exitPrice = x, !.leverage = Some(2), !.pnl = po[1], !.outcome = po[2]] :
        i \in TradeIds, d \in Directions, x \in {None, Some(110)}, po \in Reported }

UpdateBodies ==
    { [Blank EXCEPT !.id = i, !.pair = "BTCUSD", !.direction = "LONG", !.entryPrice = Some(100),
                    !.pnl = p] :
        i \in TradeIds, p \in {None, Some(-20)} }

\* bodies of PATCH /api/trades/:id (the id is the route parameter)
PatchBodies ==
    { [Blank EXCEPT !.id = i, !.exitPrice = x, !.pnl = po[1], !.outcome = po[2]] :
        i \in TradeIds, x \in {None, Some(110)}, po \in Reported \cup { <<None, "OPEN">> } }

----------------------------------------------------------------------------
(* The trades table and its prepared statements (db.ts) *)

HasId(T, id) == \E r \in T : r.id = id

getTradeById(T, id) == CHOOSE r \in T : r.id = id

\* INSERT ... ON CONFLICT(id) DO UPDATE SET the seven listed columns
\* INSERT OR REPLACE in place of the upsert: a conflicting row is replaced whole
insertTrade_Replace(T, row) == { r \in T : r.id # row.id } \cup {row}

\* a plain INSERT into a table without the primary key
insertTrade_Append(T, row) == T \cup {row}

\* INSERT ... ON CONFLICT(id) DO UPDATE SET the seven columns of the position
insertTrade(T, row) ==
    IF HasId(T, row.id)
    THEN { IF r.id = row.id
           THEN [r EXCEPT !.pair = row.pair, !.direction = row.direction,
                          !.entry_price = row.entry_price, !.stop_loss = row.stop_loss,
                          !.take_profit = row.take_profit, !.leverage = row.leverage,
                          !.strategy = row.strategy]
           ELSE r : r \in T }
    ELSE T \cup {row}

\* the named parameters of updateTrade
UpdateParams ==
    {"id", "exit_price", "pnl", "pnl_percent", "outcome", "notes", "checklist_grade", "closed_at"}

\* the value bound to parameter f of updateTrade from the object u; a parameter
\* that u lacks is bound to NULL (the driver that accepts such an object)
Bound(u, f) ==
    IF f \in DOMAIN u THEN u[f]
    ELSE IF f \in {"exit_price", "closed_at"} THEN None
    ELSE NULL

\* UPDATE trades SET the seven columns WHERE id = @id
updateTrade(T, u) ==
    { IF r.id = u.id
      THEN [r EXCEPT !.exit_price = Bound(u, "exit_price"), !.pnl = u.pnl,
                     !.pnl_percent = u.pnl_percent, !.outcome = Bound(u, "outcome"),
                     !.notes = Bound(u, "notes"),
                     !.checklist_grade = Bound(u, "checklist_grade"),
                     !.closed_at = Bound(u, "closed_at")]
      ELSE r : r \in T }

\* tradeDb.update(u) throws when the driver rejects an object that lacks a parameter
UpdateThrows(drv, u) == drv = "rejects" /\ UpdateParams \ DOMAIN u # {}

RECURSIVE SumPnl(_)
SumPnl(T) ==
    IF T = {} THEN 0
    ELSE LET r == CHOOSE x \in T : TRUE IN r.pnl + SumPnl(T \ {r})

\* the aggregate without its WHERE clause
Counted_All(T) == T

Counted(T) == { r \in T : r.outcome # NULL /\ r.outcome # "OPEN" }

\* getStats: the aggregate over the rows whose outcome is neither NULL nor OPEN
\* (avg_win and avg_loss are not modelled)
getStats(T) ==
    [total_trades |-> Cardinality(Counted(T)),
     wins |-> Cardinality({ r \in Counted(T) : r.outcome = "WIN" }),
     losses |-> Cardinality({ r \in Counted(T) : r.outcome = "LOSS" }),
     breakeven |-> Cardinality({ r \in Counted(T) : r.outcome = "BREAKEVEN" }),
     total_pnl |-> SumPnl(Counted(T))]

\* the sequences whose elements are the rows of T, each once
RECURSIVE Orderings(_)
Orderings(T) ==
    IF T = {} THEN {<<>>}
    ELSE UNION { { <<r>> \o s : s \in Orderings(T \ {r}) } : r \in T }

IsNewestFirst(s) == \A i \in 1..(Len(s) - 1) : s[i].timestamp >= s[i + 1].timestamp

\* getTrades with limit 10, offset 0: ORDER BY timestamp DESC LIMIT 10; rows of
\* equal timestamp come in an order SQL leaves open
getTrades(T) ==
    { SubSeq(s, 1, IF Len(s) < 10 THEN Len(s) ELSE 10) :
        s \in { o \in Orderings(T) : IsNewestFirst(o) } }

\* getStrategyStats, the row of one strategy: win_count * |avg_win| is |sum of the
\* wins' pnl| and loss_count * |avg_loss| is |sum of the losses' pnl|
Abs(n) == IF n < 0 THEN -n ELSE n
StrategyRows(T, strategy) == { r \in T : r.outcome \in Closed /\ r.strategy = strategy }
WinValue(T, strategy) == Abs(SumPnl({ r \in StrategyRows(T, strategy) : r.outcome = "WIN" }))
LossValue(T, strategy) ==
    Abs(SumPnl({ r \in StrategyRows(T, strategy) : r.outcome = "LOSS" })) + 1

----------------------------------------------------------------------------
(* server.ts helpers *)

formatTrade(r) ==
    [id |-> r.id, pair |-> r.pair, direction |-> r.direction, entryPrice |-> r.entry_price,
     exitPrice |-> r.exit_price, stopLoss |-> r.stop_loss, takeProfit |-> r.take_profit,
     leverage |-> r.leverage, pnl |-> r.pnl, pnlPercent |-> r.pnl_percent,
     outcome |-> r.outcome, strategy |-> r.strategy, notes |-> r.notes,
     checklistGrade |-> r.checklist_grade, source |-> r.source,
     timestamp |-> r.timestamp, closedAt |-> r.closed_at]

\* Math.round(wins / total * 100)
RoundDiv(a, b) == (2 * a + b) \div (2 * b)

formatStats(s) ==
    [totalTrades |-> s.total_trades, wins |-> s.wins, losses |-> s.losses,
     breakeven |-> s.breakeven, totalPnl |-> s.total_pnl,
     winRate |-> IF s.total_trades > 0 THEN RoundDiv(s.wins * 100, s.total_trades) ELSE 0]

Event(name, data) == [event |-> name, data |-> <<data>>]

----------------------------------------------------------------------------
(* Strategy weights.  A weight is a quotient of integers, kept as numerator *)
(* and denominator so that the server's rounding is not lost.              *)

Ratio(n, d) == [num |-> n, den |-> d]
SameValue(a, b) == a.num * b.den = b.num * a.den
AtMost(a, b) == a.num * b.den <= b.num * a.den

\* Math.max(0.1, Math.min(5.0, x))
Clamp(x) ==
    IF AtMost(Ratio(5, 1), x) THEN Ratio(5, 1)
    ELSE IF AtMost(x, Ratio(1, 10)) THEN Ratio(1, 10)
    ELSE x

\* Number(x.toFixed(2)): the nearest multiple of 0.01, the larger of two
toFixed2(x) == Ratio(RoundDiv(100 * x.num, x.den), 100)

\* learningService.calculateStrategyWeight
calculateStrategyWeight(wins, losses, avgWinPnl, avgLossPnl) ==
    LET winValue == wins * Abs(avgWinPnl)
        lossValue == losses * Abs(avgLossPnl) + 1
    IN  Clamp(Ratio(winValue, lossValue))

\* formatStrategyStats (lastUpdated, which is Date.now(), is left out)
formatStrategyStats(stats) ==
    LET winValue == stats.win_count * Abs(stats.avg_win)
        lossValue == stats.loss_count * Abs(stats.avg_loss) + 1
        weight == Clamp(Ratio(winValue, lossValue))
    IN  [strategy |-> stats.strategy, weight |-> toFixed2(weight),
         winCount |-> stats.win_count, lossCount |-> stats.loss_count,
         avgWinPnl |-> stats.avg_win, avgLossPnl |-> stats.avg_loss]

NoStat == [row |-> <<>>, server |-> <<>>, client |-> <<>>]

\* rows of getStrategyStats: counts, and whole-number averages (0 when the strategy
\* has no win, or no loss; avg_loss is the mean of negative pnl)
MaxWins == 5
MaxLosses == 2
StrategyStats ==
    { [strategy |-> "Manual", win_count |-> w, loss_count |-> l,
       avg_win |-> IF w = 0 THEN 0 ELSE aw, avg_loss |-> IF l = 0 THEN 0 ELSE al] :
      w \in 0..MaxWins, l \in 0..MaxLosses, aw \in {1, 50}, al \in {-1, -3} }

----------------------------------------------------------------------------
(* The event stream: sseClients, broadcast and GET /api/stream.  A        *)
(* subscriber is one HTTP connection; wire is what has been written to its *)
(* response.  log, since, closed and on belong to the observer: log is the *)
(* sequence of all events broadcast while on, since[s] its length when s   *)
(* subscribed, closed the connections whose 'close' has been handled.      *)
(* stalled are the connections whose peer has stopped reading, acked[s]    *)
(* the number of writes the peer of s had taken when it stopped.           *)

Subscribers == {"s1", "s2"}

\* the fields of a TradeService as declared; released records that the
\* application called disconnect() and has not called connect() since
ClientOff ==
    [eventSource |-> "null", connected |-> FALSE, reconnectAttempts |-> 0,
     timers |-> 0, released |-> FALSE]

HubOff ==
    [clients |-> {}, timers |-> {}, closed |-> {},
     wire |-> [s \in Subscribers |-> <<>>], since |-> [s \in Subscribers |-> 0],
     log |-> <<>>, on |-> FALSE,
     stalled |-> {}, acked |-> [s \in Subscribers |-> 0]]

\* broadcast, once per event in order: a write to every response in sseClients
Broadcast(h, events) ==
    [h EXCEPT !.wire = [s \in Subscribers |->
                           IF s \in h.clients THEN h.wire[s] \o events ELSE h.wire[s]],
              !.log = IF h.on THEN h.log \o events ELSE h.log]

\* sseClients after a connection that forgets sseClients.add(res)
Joined_Never(h, s) == h.clients

\* sseClients.add(res)
Joined(h, s) == h.clients \cup {s}

\* sseClients after a 'close' that forgets sseClients.delete(res)
Left_Stays(h, s) == h.clients

\* sseClients.delete(res)
Left(h, s) == h.clients \ {s}

\* signalDb.getRecent(10): ORDER BY timestamp DESC LIMIT 10
getRecentSignals(S) ==
    { SubSeq(o, 1, IF Len(o) < 10 THEN Len(o) ELSE 10) :
        o \in { q \in Orderings(S) : IsNewestFirst(q) } }

formatSignal(r) ==
    [id |-> r.id, pair |-> r.pair, direction |-> r.direction, entryPrice |-> r.entry_price,
     stopLoss |-> r.stop_loss, takeProfit |-> r.take_profit, strategy |-> r.strategy,
     confidence |-> r.confidence, status |-> r.status, reasoning |-> r.reasoning,
     pnl |-> r.pnl, timestamp |-> r.timestamp]

\* the data the init event can carry when the tables hold T and S
Snapshots(T, S) ==
    { [stats |-> formatStats(getStats(T)),
       trades |-> [i \in 1..Len(recentTrades) |-> formatTrade(recentTrades[i])],
       signals |-> [i \in 1..Len(recentSignals) |-> formatSignal(recentSignals[i])]] :
      recentTrades \in getTrades(T), recentSignals \in getRecentSignals(S) }

\* the learning events analyzeTrade inserts for trade, recent being the result of
\* tradeDb.getAll(10, 0), as their pattern types in insertion order
RECURSIVE LeadingLosses(_)
LeadingLosses(s) ==
    IF s = <<>> \/ s[1].outcome # "LOSS" THEN 0 ELSE 1 + LeadingLosses(Tail(s))

analyzeTrade(T, trade, recent) ==
    LET strat == IF trade.strategy = NULL THEN "Manual" ELSE trade.strategy
        known == StrategyRows(T, strat) # {}
        w == WinValue(T, strat)
        l == LossValue(T, strat)
    IN  (IF LeadingLosses(recent) >= 3 THEN <<"CONSECUTIVE_LOSSES">> ELSE <<>>)
        \o (IF trade.outcome = "WIN" THEN <<"TIME_PERFORMANCE">> ELSE <<>>)
        \o (IF known /\ (w > 2 * l \/ 2 * w < l) THEN <<"STRATEGY_PERFORMANCE">> ELSE <<>>)

\* the learning_update analyzeTrade broadcasts: only CONSECUTIVE_LOSSES is pushed to patterns
AnalyzeEvents(trade, recent) ==
    IF LeadingLosses(recent) >= 3
    THEN << Event("learning_update", [tradeId |-> trade.id, patterns |-> <<"CONSECUTIVE_LOSSES">>]) >>
    ELSE <<>>

----------------------------------------------------------------------------
(* The handlers.  Each is the set of results the handler can end with, a   *)
(* result being the table it leaves, the HTTP status, the events it        *)
(* broadcast in order, the learning events it inserted and the trade it    *)
(* returned (<<>> when the answer carries none).                           *)

Result(T, status, events, learned, body) ==
    [trades |-> T, status |-> status, events |-> events, learned |-> learned, body |-> body]

Sign(direction) == IF direction = "LONG" THEN 1 ELSE -1

OutcomeOf(pnl) == IF pnl > 0 THEN "WIN" ELSE IF pnl < 0 THEN "LOSS" ELSE "BREAKEVEN"

\* dbTrade of POST /api/trades (server.ts:338-356)
PostRow(b, t) ==
    [id |-> b.id, pair |-> b.pair, direction |-> b.direction, entry_price |-> b.entryPrice[1],
     exit_price |-> OrNull(b.exitPrice), stop_loss |-> OrNull(b.stopLoss),
     take_profit |-> OrNull(b.takeProfit), leverage |-> OrNum(b.leverage, 1),
     pnl |-> OrNum(b.pnl, 0), pnl_percent |-> OrNum(b.pnlPercent, 0),
     outcome |-> IF b.outcome # ABSENT THEN b.outcome
                 ELSE IF Truthy(b.exitPrice) THEN "BREAKEVEN" ELSE "OPEN",
     strategy |-> OrStr(b.strategy, "Manual"), notes |-> OrStr(b.notes, NULL),
     checklist_grade |-> OrStr(b.checklistGrade, NULL), source |-> "manual",
     timestamp |-> OrNum(b.timestamp, t),
     closed_at |-> IF Truthy(b.exitPrice) THEN Some(t) ELSE None]

\* app.post('/api/trades')
PostTrades(T, b, t) ==
    LET dbTrade == PostRow(b, t)
        T2 == insertTrade(T, dbTrade)
        closed == dbTrade.outcome # "OPEN"
    IN  { Result(T2, 201,
                 (IF closed THEN AnalyzeEvents(dbTrade, recent) ELSE <<>>)
                 \o << Event(IF dbTrade.outcome = "OPEN" THEN "trade_open" ELSE "trade_close",
                             formatTrade(dbTrade)),
                       Event("stats_update", formatStats(getStats(T2))) >>,
                 IF closed THEN analyzeTrade(T2, dbTrade, recent) ELSE <<>>,
                 <<formatTrade(dbTrade)>>) :
          recent \in getTrades(T2) }

\* app.patch('/api/trades/:id')
PatchTrade(T, b, t) ==
    IF ~HasId(T, b.id)
    THEN { Result(T, 404, <<>>, <<>>, <<>>) }
    ELSE LET existingTrade == getTradeById(T, b.id)
             u == [id |-> b.id,
                   exit_price |-> Nullish(b.exitPrice, existingTrade.exit_price),
                   pnl |-> IF b.pnl # None THEN b.pnl[1] ELSE existingTrade.pnl,
                   pnl_percent |-> IF b.pnlPercent # None THEN b.pnlPercent[1]
                                   ELSE existingTrade.pnl_percent,
                   outcome |-> IF b.outcome # ABSENT THEN b.outcome ELSE existingTrade.outcome,
                   notes |-> IF b.notes # ABSENT THEN b.notes ELSE existingTrade.notes,
                   checklist_grade |-> IF b.checklistGrade # ABSENT THEN b.checklistGrade
                                       ELSE existingTrade.checklist_grade,
                   closed_at |-> IF b.outcome # ABSENT /\ b.outcome # "OPEN" THEN Some(t)
                                 ELSE existingTrade.closed_at]
             T2 == updateTrade(T, u)
             updatedTrade == getTradeById(T2, b.id)
         IN  { Result(T2, 200,
                      << Event("trade_update", formatTrade(updatedTrade)),
                         Event("stats_update", formatStats(getStats(T2))) >>,
                      <<>>, <<formatTrade(updatedTrade)>>) }

\* dbTrade of TRADE_OPEN (server.ts:129-147)
OpenRow(b, t) ==
    [id |-> b.id, pair |-> b.pair, direction |-> b.direction, entry_price |-> b.entryPrice[1],
     exit_price |-> None, stop_loss |-> OrNull(b.stopLoss), take_profit |-> OrNull(b.takeProfit),
     leverage |-> OrNum(b.leverage, 1), pnl |-> 0, pnl_percent |-> 0, outcome |-> "OPEN",
     strategy |-> OrStr(b.strategy, "Manual"), notes |-> NULL, checklist_grade |-> NULL,
     source |-> "webhook", timestamp |-> OrNum(b.timestamp, t), closed_at |-> None]

\* a TRADE_CLOSE for an id that is not stored that inserts the trade as it would
\* have been opened
CloseRow_AsOpened(b, t) == OpenRow(b, t)

\* dbTrade of TRADE_CLOSE for an id that is not stored (server.ts:192-221)
CloseRow(b, t) ==
    LET exitPrice == Nullish(b.exitPrice, b.entryPrice)[1]
        pnl == IF b.pnl # None THEN b.pnl[1]
               ELSE (exitPrice - b.entryPrice[1]) * Sign(b.direction) * OrNum(b.leverage, 1)
        pnlPercent == IF b.pnlPercent # None THEN b.pnlPercent[1]
                      ELSE (pnl * 100) \div b.entryPrice[1]
    IN  [id |-> b.id, pair |-> b.pair, direction |-> b.direction,
         entry_price |-> b.entryPrice[1], exit_price |-> Some(exitPrice),
         stop_loss |-> OrNull(b.stopLoss), take_profit |-> OrNull(b.takeProfit),
         leverage |-> OrNum(b.leverage, 1), pnl |-> pnl, pnl_percent |-> pnlPercent,
         outcome |-> IF b.outcome # ABSENT THEN b.outcome ELSE OutcomeOf(pnl),
         strategy |-> OrStr(b.strategy, "Manual"), notes |-> NULL, checklist_grade |-> NULL,
         source |-> "webhook", timestamp |-> OrNum(b.timestamp, t), closed_at |-> Some(t)]

\* the object TRADE_CLOSE passes to tradeDb.update for a stored id (server.ts:158-178)
CloseUpdate(existingTrade, b, t) ==
    LET exitPrice == Nullish(b.exitPrice,
                             Nullish(existingTrade.exit_price, Some(existingTrade.entry_price)))[1]
        pnl == IF b.pnl # None THEN b.pnl[1]
               ELSE (exitPrice - existingTrade.entry_price) * Sign(existingTrade.direction)
                    * OrNum(Some(existingTrade.leverage), 1)
        pnlPercent == IF b.pnlPercent # None THEN b.pnlPercent[1]
                      ELSE (pnl * 100) \div existingTrade.entry_price
    IN  [id |-> b.id, exit_price |-> Some(exitPrice), pnl |-> pnl, pnl_percent |-> pnlPercent,
         outcome |-> IF b.outcome # ABSENT THEN b.outcome ELSE OutcomeOf(pnl),
         closed_at |-> Some(t)]

\* a webhook that skips the comparison of payload.secret
Authorized_Any(secret) == TRUE

\* payload.secret !== WEBHOOK_SECRET is answered 401
Authorized(secret) == secret = WEBHOOK_SECRET

\* app.post('/api/webhook/trade')
WebhookTrade(T, p, t, drv) ==
    LET b == p.trade IN
    IF ~Authorized(p.secret) THEN { Result(T, 401, <<>>, <<>>, <<>>) }
    ELSE IF ~p.hasTrade THEN { Result(T, 400, <<>>, <<>>, <<>>) }
    ELSE IF p.type = "TRADE_OPEN" THEN
        LET dbTrade == OpenRow(b, t)
        IN  { Result(insertTrade(T, dbTrade), 200,
                     << Event("trade_open", formatTrade(dbTrade)) >>, <<>>, <<>>) }
    ELSE IF p.type = "TRADE_CLOSE" /\ HasId(T, b.id) THEN
        LET u == CloseUpdate(getTradeById(T, b.id), b, t)
            T2 == updateTrade(T, u)
            updatedTrade == getTradeById(T2, b.id)
        IN  IF UpdateThrows(drv, u) THEN { Result(T, 500, <<>>, <<>>, <<>>) }
            ELSE { Result(T2, 200,
                          << Event("trade_close", formatTrade(updatedTrade)),
                             Event("stats_update", formatStats(getStats(T2))) >>
                          \o AnalyzeEvents(updatedTrade, recent),
                          analyzeTrade(T2, updatedTrade, recent), <<>>) :
                   recent \in getTrades(T2) }
    ELSE IF p.type = "TRADE_CLOSE" THEN
        LET dbTrade == CloseRow(b, t)
            T2 == insertTrade(T, dbTrade)
        IN  { Result(T2, 200,
                     << Event("trade_close", formatTrade(dbTrade)),
                        Event("stats_update", formatStats(getStats(T2))) >>
                     \o AnalyzeEvents(dbTrade, recent),
                     analyzeTrade(T2, dbTrade, recent), <<>>) :
              recent \in getTrades(T2) }
    ELSE IF p.type = "TRADE_UPDATE" THEN
        LET u == [id |-> b.id, pnl |-> OrNum(b.pnl, 0), pnl_percent |-> OrNum(b.pnlPercent, 0)]
            T2 == updateTrade(T, u)
        IN  IF UpdateThrows(drv, u) THEN { Result(T, 500, <<>>, <<>>, <<>>) }
            ELSE { Result(T2, 200,
                          IF HasId(T2, b.id)
                          THEN << Event("trade_update", formatTrade(getTradeById(T2, b.id))) >>
                          ELSE <<>>,
                          <<>>, <<>>) }
    ELSE { Result(T, 200, <<>>, <<>>, <<>>) }

WebhookPayloads ==
    { [secret |-> WEBHOOK_SECRET, type |-> "TRADE_OPEN", hasTrade |-> TRUE, trade |-> b] :
        b \in OpenBodies }
    \cup { [secret |-> WEBHOOK_SECRET, type |-> "TRADE_CLOSE", hasTrade |-> TRUE, trade |-> b] :
        b \in CloseBodies }
    \cup { [secret |-> WEBHOOK_SECRET, type |-> "TRADE_UPDATE", hasTrade |-> TRUE, trade |-> b] :
        b \in UpdateBodies }
    \cup { [secret |-> "wrong", type |-> ty, hasTrade |-> TRUE, trade |-> Blank] :
        ty \in {"TRADE_OPEN", "TRADE_CLOSE", "TRADE_UPDATE"} }
    \cup { [secret |-> WEBHOOK_SECRET, type |-> ty, hasTrade |-> FALSE, trade |-> Blank] :
        ty \in {"TRADE_OPEN", "TRADE_CLOSE", "TRADE_UPDATE"} }

----------------------------------------------------------------------------
(* Signals: POST /api/webhook/signal and the signals table *)

SignalIds == {"g1"}
SignalStatuses == {"WATCHING", "TRIGGERED", "WON", "LOST", "EXPIRED"}

\* payload.signal: id, pair, direction and entryPrice are required by WebhookPayload,
\* status and pnl are optional; the other optional fields are left out
SignalBody(id, status, pnl) ==
    [id |-> id, pair |-> "BTCUSD", direction |-> "LONG", entryPrice |-> 100,
     status |-> status, pnl |-> pnl]

NewSignals == { SignalBody(i, st, None) : i \in SignalIds, st \in {ABSENT, "TRIGGERED"} }

SignalUpdates ==
    { SignalBody(i, sp[1], sp[2]) :
        i \in SignalIds,
        sp \in { <<ABSENT, None>>, <<"WATCHING", None>>, <<"TRIGGERED", None>>,
                 <<"WON", Some(15)>>, <<"EXPIRED", None>> } }

SignalPayloads ==
    { [secret |-> WEBHOOK_SECRET, type |-> "SIGNAL_NEW", hasSignal |-> TRUE, signal |-> b] :
        b \in NewSignals }
    \cup { [secret |-> WEBHOOK_SECRET, type |-> "SIGNAL_UPDATE", hasSignal |-> TRUE, signal |-> b] :
        b \in SignalUpdates }
    \cup { [secret |-> "wrong", type |-> "SIGNAL_NEW", hasSignal |-> TRUE, signal |-> b] :
        b \in NewSignals }
    \cup { [secret |-> "wrong", type |-> "SIGNAL_UPDATE", hasSignal |-> TRUE,
            signal |-> SignalBody(i, "LOST", None)] : i \in SignalIds }
    \cup { [secret |-> WEBHOOK_SECRET, type |-> "SIGNAL_UPDATE", hasSignal |-> FALSE,
            signal |-> SignalBody(ABSENT, ABSENT, None)] }

\* the dbSignal of SIGNAL_NEW
SignalRow(b, t) ==
    [id |-> b.id, pair |-> b.pair, direction |-> b.direction, entry_price |-> b.entryPrice,
     stop_loss |-> NULL, take_profit |-> NULL, strategy |-> "Manual", confidence |-> "MEDIUM",
     status |-> OrStr(b.status, "WATCHING"), reasoning |-> NULL, pnl |-> None,
     timestamp |-> t]

\* insertSignal is a plain INSERT: a second row with a stored id violates the primary key
insertSignalThrows(S, row) == \E r \in S : r.id = row.id

\* updateSignalStatus: UPDATE signals SET status = @status, pnl = @pnl WHERE id = @id
updateSignalStatus(S, id, status, pnl) ==
    { IF r.id = id THEN [r EXCEPT !.status = status, !.pnl = pnl] ELSE r : r \in S }

SignalResult(S, status, events) == [signals |-> S, status |-> status, events |-> events]

\* app.post('/api/webhook/signal')
WebhookSignal(S, p, t) ==
    LET signal == p.signal IN
    IF ~Authorized(p.secret) THEN SignalResult(S, 401, <<>>)
    ELSE IF ~p.hasSignal THEN SignalResult(S, 400, <<>>)
    ELSE IF p.type = "SIGNAL_NEW" THEN
        LET dbSignal == SignalRow(signal, t)
        IN  IF insertSignalThrows(S, dbSignal) THEN SignalResult(S, 500, <<>>)
            ELSE SignalResult(S \cup {dbSignal}, 200,
                              << Event("signal_new", formatSignal(dbSignal)) >>)
    ELSE IF p.type = "SIGNAL_UPDATE" THEN
        SignalResult(updateSignalStatus(S, signal.id, OrStr(signal.status, "WATCHING"),
                                        OrNull(signal.pnl)),
                     200,
                     << Event("signal_update",
                              [id |-> signal.id, status |-> signal.status, pnl |-> signal.pnl]) >>)
    ELSE SignalResult(S, 200, <<>>)

----------------------------------------------------------------------------
(* Agent memory: MemoryService (part_004) and /api/memory/sync (server.ts) *)

Clients == {"c1", "c2"}

LessonCap == 50
KeptRecent == 49
FirstLevelXp == 100

Lesson(id, timestamp, trendContext, insight) ==
    [id |-> id, timestamp |-> timestamp, trendContext |-> trendContext, insight |-> insight]

\* the lesson of DEFAULT_MEMORY; its timestamp is Date.now() when the module loads
Origin(t) == Lesson("init-1", t, "CHOPPY", "Initial Protocol")

BrainVersion(level) == "v" \o ToString(level \div 10 + 1) \o "." \o ToString(level % 10)

DEFAULT_MEMORY(t) ==
    [level |-> 1, currentXp |-> 0, nextLevelXp |-> FirstLevelXp, brainVersion |-> "v1.0",
     lessons |-> <<Origin(t)>>]

\* s.slice(-n)
LastN(s, n) == IF Len(s) <= n THEN s ELSE SubSeq(s, Len(s) - n + 1, Len(s))

\* the memory addExperience(amount) saves
addExperience(memory, amount) ==
    LET xp == memory.currentXp + amount IN
    IF xp >= memory.nextLevelXp
    THEN [memory EXCEPT !.level = memory.level + 1,
                        !.currentXp = xp - memory.nextLevelXp,
                        !.nextLevelXp = (memory.nextLevelXp * 3) \div 2,
                        !.brainVersion = BrainVersion(memory.level + 1)]
    ELSE [memory EXCEPT !.currentXp = xp]

leveledUp(memory, amount) == memory.currentXp + amount >= memory.nextLevelXp

\* the memory addLesson saves, newLesson being the lesson it builds
addLesson(memory, newLesson) ==
    IF Len(memory.lessons) > LessonCap
    THEN [memory EXCEPT !.lessons =
             <<memory.lessons[1]>> \o LastN(memory.lessons, KeptRecent) \o <<newLesson>>]
    ELSE [memory EXCEPT !.lessons = Append(memory.lessons, newLesson)]

\* Array.from(lessonMap.values()) after lessonMap.set(l.id, l) for every l of s in
\* order: a Map keeps its keys in the order of their first insertion and, per key,
\* the value set last
MapValues(s) ==
    LET last(i) == LET js == { j \in i..Len(s) : s[j].id = s[i].id }
                   IN  CHOOSE j \in js : \A k \in js : k <= j
        firsts == SelectSeq([ i \in 1..Len(s) |-> i ],
                            LAMBDA i : \A j \in 1..(i - 1) : s[j].id # s[i].id)
    IN  [ k \in 1..Len(firsts) |-> s[last(firsts[k])] ]

\* .sort((a, b) => a.timestamp - b.timestamp): Array.prototype.sort is stable, and
\* so is SortSeq (an insertion sort) under a strict order
SortByTimestamp(s) == SortSeq(s, LAMBDA a, b : a.timestamp < b.timestamp)

mergeMemory(loc, cld) ==
    LET useLocalXp == loc.level >= cld.level
        allLessons == SortByTimestamp(MapValues(loc.lessons \o cld.lessons))
    IN  [level |-> IF loc.level >= cld.level THEN loc.level ELSE cld.level,
         currentXp |-> IF useLocalXp THEN loc.currentXp ELSE cld.currentXp,
         nextLevelXp |-> IF useLocalXp THEN loc.nextLevelXp ELSE cld.nextLevelXp,
         brainVersion |-> IF loc.level >= cld.level THEN loc.brainVersion ELSE cld.brainVersion,
         lessons |-> IF Len(allLessons) > LessonCap
                     THEN <<allLessons[1]>> \o LastN(allLessons, KeptRecent)
                     ELSE allLessons]

\* the row /api/memory/sync upserts for the incoming memory; row is <<>> or <<the
\* stored row>> (lessons are stored as JSON text, which the handler parses back)
CloudLevel(row) == IF row = <<>> \/ row[1].level = 0 THEN 1 ELSE row[1].level

SyncRow(row, memory, t) ==
    LET existingLessons == IF row = <<>> THEN <<>> ELSE row[1].lessons
        existingIds == { existingLessons[i].id : i \in 1..Len(existingLessons) }
        allLessons == existingLessons
                      \o SelectSeq(memory.lessons, LAMBDA l : l.id \notin existingIds)
    IN  [level |-> IF memory.level > CloudLevel(row) THEN memory.level ELSE CloudLevel(row),
         current_xp |-> IF memory.level > CloudLevel(row) THEN memory.currentXp
                        ELSE IF row = <<>> THEN 0 ELSE row[1].current_xp,
         next_level_xp |-> IF memory.level > CloudLevel(row) THEN memory.nextLevelXp
                           ELSE IF row = <<>> \/ row[1].next_level_xp = 0 THEN FirstLevelXp
                           ELSE row[1].next_level_xp,
         brain_version |-> IF memory.brainVersion = "" THEN "v1.0" ELSE memory.brainVersion,
         lessons |-> LastN(allLessons, LessonCap),
         last_synced |-> t]

\* the memory the server answers with (and GET /api/memory returns) for a stored row
MemoryOfRow(r) ==
    [level |-> r.level, currentXp |-> r.current_xp, nextLevelXp |-> r.next_level_xp,
     brainVersion |-> r.brain_version, lessons |-> r.lessons]

----------------------------------------------------------------------------
(* The memory replicas as a state machine *)

\* a client's MemoryService between syncs: the flag syncInProgress, the calls of
\* syncToCloud / syncFromCloud that are between their fetch and their finally, and
\* whether the latest sync call returned at its guard
Idle == [inProgress |-> FALSE, flights |-> <<>>, skipped |-> FALSE]

\* a sync call awaiting its fetch: syncToCloud holds the memory it read before the
\* fetch, syncFromCloud reads the memory after it
Flight(kind, memory) == [kind |-> kind, stage |-> "sent", memory |-> memory, data |-> <<>>]

\* no client has loaded the page: the state of the memory side in TradeSpec
MemoryIdle ==
    /\ local = [c \in Clients |-> DEFAULT_MEMORY(0)]
    /\ cloud = <<>>
    /\ sync = [c \in Clients |-> Idle]
    /\ lastSyncTime = [c \in Clients |-> 0]
    /\ calls = 0

\* if (this.syncInProgress) return false
SyncGuard_None(c) == TRUE

SyncGuard(c) == ~sync[c].inProgress

SyncCooldown == 60000

\* Date.now() - this.lastSyncTime < 60000.  The model's clock counts from the load
\* of the first client, Date.now() from 1970: a lastSyncTime of 0 (never synced, or
\* reset by forceSync) is always more than a minute back
Cooldown(c) == lastSyncTime[c] # 0 /\ now - lastSyncTime[c] < SyncCooldown

\* syncToCloud from its guard to its fetch, memory being what getMemory returns
StartSync(c, memory) ==
    IF SyncGuard(c)
    THEN [sync EXCEPT ![c] = [inProgress |-> TRUE,
                              flights |-> Append(sync[c].flights, Flight("toCloud", <<memory>>)),
                              skipped |-> FALSE]]
    ELSE [sync EXCEPT ![c].skipped = TRUE]

\* addExperience(amount), with the syncToCloud it starts after a level-up
AddExperience(c, amount) ==
    /\ calls < MaxCalls
    /\ calls' = calls + 1
    /\ local' = [local EXCEPT ![c] = addExperience(local[c], amount)]
    /\ sync' = IF leveledUp(local[c], amount) THEN StartSync(c, local'[c]) ELSE sync
    /\ UNCHANGED <<now, cloud, lastSyncTime>>
    /\ UNCHANGED tradeSide

\* addLesson, called at now or a millisecond later: id and timestamp are two
\* readings of Date.now(), the second one possibly a millisecond after the first
AddLesson(c, insight) ==
    /\ calls < MaxCalls
    /\ \E id \in {now, now + 1} : \E ts \in {id, id + 1} :
          /\ now' = ts
          /\ local' = [local EXCEPT ![c] =
                          addLesson(local[c], Lesson(ToString(id), ts, "UP", insight))]
    /\ calls' = calls + 1
    /\ UNCHANGED <<cloud, sync, lastSyncTime>>
    /\ UNCHANGED tradeSide

\* syncToCloud called by the interval timer, up to its fetch
SyncToCloud(c) ==
    /\ calls < MaxCalls
    /\ calls' = calls + 1
    /\ sync' = StartSync(c, local[c])
    /\ UNCHANGED <<now, local, cloud, lastSyncTime>>
    /\ UNCHANGED tradeSide

\* forceSync: reset the cooldown, then syncToCloud up to its fetch
ForceSync(c) ==
    /\ calls < MaxCalls
    /\ calls' = calls + 1
    /\ lastSyncTime' = [lastSyncTime EXCEPT ![c] = 0]
    /\ sync' = StartSync(c, local[c])
    /\ UNCHANGED <<now, local, cloud>>
    /\ UNCHANGED tradeSide

\* syncFromCloud, called when the tab becomes visible, up to its fetch
SyncFromCloud(c) ==
    /\ calls < MaxCalls
    /\ calls' = calls + 1
    /\ sync' = IF ~SyncGuard(c) \/ Cooldown(c)
               THEN [sync EXCEPT ![c].skipped = TRUE]
               ELSE [sync EXCEPT ![c] = [inProgress |-> TRUE,
                                         flights |-> Append(sync[c].flights, Flight("fromCloud", <<>>)),
                                         skipped |-> FALSE]]
    /\ UNCHANGED <<now, local, cloud, lastSyncTime>>
    /\ UNCHANGED tradeSide

\* the flights of c of a kind at a stage
Flights(c, kind, stage) ==
    { k \in 1..Len(sync[c].flights) :
        sync[c].flights[k].kind = kind /\ sync[c].flights[k].stage = stage }

Answered(c, k, data) ==
    [sync EXCEPT ![c].flights[k].stage = "answered", ![c].flights[k].data = <<data>>]

\* s without its k-th element
Without(s, k) == SubSeq(s, 1, k - 1) \o SubSeq(s, k + 1, Len(s))

\* finally { this.syncInProgress = false }, the call being over
Finally(c, k) ==
    [sync EXCEPT ![c].inProgress = FALSE, ![c].flights = Without(sync[c].flights, k)]

\* app.post('/api/memory/sync') handling a request of c
MemorySync(c) ==
    /\ \E k \in Flights(c, "toCloud", "sent") :
          /\ cloud' = << SyncRow(cloud, sync[c].flights[k].memory[1], now) >>
          /\ sync' = Answered(c, k, MemoryOfRow(cloud'[1]))
    /\ hub' = Broadcast(hub, << Event("memory_sync", MemoryOfRow(cloud'[1])) >>)
    /\ UNCHANGED <<now, local, lastSyncTime, calls>>
    /\ UNCHANGED <<trades, driver, req, out, signals, stat, conn>>

\* the memory GET /api/memory answers with
GetMemory(row) ==
    IF row = <<>>
    THEN [level |-> 1, currentXp |-> 0, nextLevelXp |-> FirstLevelXp, brainVersion |-> "v1.0",
          lessons |-> <<>>]
    ELSE MemoryOfRow(row[1])

\* app.get('/api/memory') handling a request of c
MemoryGet(c) ==
    /\ \E k \in Flights(c, "fromCloud", "sent") : sync' = Answered(c, k, GetMemory(cloud))
    /\ UNCHANGED <<now, local, cloud, lastSyncTime, calls>>
    /\ UNCHANGED tradeSide

\* a sync call after its response: syncToCloud merges the memory it read before the
\* fetch with the answer, syncFromCloud the memory it reads now; the result is
\* saved and the time noted
SyncDone(c) ==
    /\ \E k \in Flights(c, "toCloud", "answered") \cup Flights(c, "fromCloud", "answered") :
          /\ local' = [local EXCEPT ![c] =
                          mergeMemory(IF sync[c].flights[k].kind = "toCloud"
                                      THEN sync[c].flights[k].memory[1] ELSE local[c],
                                      sync[c].flights[k].data[1])]
          /\ sync' = Finally(c, k)
    /\ lastSyncTime' = [lastSyncTime EXCEPT ![c] = now]
    /\ UNCHANGED <<now, cloud, calls>>
    /\ UNCHANGED tradeSide

\* a sync call whose fetch fails or whose response is not ok
SyncFailed(c) ==
    /\ \E k \in 1..Len(sync[c].flights) : sync' = Finally(c, k)
    /\ UNCHANGED <<now, local, cloud, lastSyncTime, calls>>
    /\ UNCHANGED tradeSide

----------------------------------------------------------------------------
(* The trade store as a state machine *)

NoRequest ==
    [op |-> "NONE", type |-> ABSENT, secret |-> ABSENT, hasTrade |-> FALSE, id |-> ABSENT,
     derive |-> FALSE, closes |-> FALSE]

\* the body carries entry, exit, direction and leverage and leaves pnl, pnlPercent
\* and outcome to the server
Derivable(b) ==
    /\ b.entryPrice # None /\ b.exitPrice # None /\ b.direction # ABSENT /\ b.leverage # None
    /\ b.pnl = None /\ b.pnlPercent = None /\ b.outcome = ABSENT

\* what the model keeps of a request: its route, the webhook's type and secret,
\* whether it carries a trade, the trade id, whether the body leaves the derived
\* fields to the server and whether it asks for a closed trade
Request(op, type, secret, hasTrade, b) ==
    [op |-> op, type |-> type, secret |-> secret, hasTrade |-> hasTrade, id |-> b.id,
     derive |-> Derivable(b),
     closes |-> \/ type = "TRADE_CLOSE" /\ hasTrade
                \/ op \in {"POST", "PATCH"} /\ b.outcome \in Closed]

\* the outcome stored under id before the request, ABSENT when the id is not stored
Prior(T, id) == IF HasId(T, id) THEN getTradeById(T, id).outcome ELSE ABSENT

\* the row stored under b.id is the row that POST /api/trades with body b inserted
\* (at the row's timestamp) and nothing has changed it since
Submitted(T, b) ==
    /\ HasId(T, b.id)
    /\ getTradeById(T, b.id) = PostRow(b, getTradeById(T, b.id).timestamp)

\* rq was answered with r; resubmission says that rq is a POST /api/trades whose
\* body had been submitted before
Respond(rq, r, resubmission) ==
    /\ trades' = r.trades
    /\ req' = rq
    /\ out' = [status |-> r.status, events |-> r.events, learned |-> r.learned,
               body |-> r.body, prior |-> Prior(trades, rq.id), again |-> resubmission]
    /\ hub' = Broadcast(hub, r.events)
    /\ UNCHANGED <<now, driver, signals, stat, conn>>
    /\ UNCHANGED memorySide

\* a call of POST /api/webhook/signal was answered with r
RespondSignal(p, r) ==
    /\ signals' = r.signals
    /\ req' = [op |-> "SIGNAL", type |-> p.type, secret |-> p.secret, hasTrade |-> p.hasSignal,
               id |-> p.signal.id, derive |-> FALSE, closes |-> FALSE]
    /\ out' = [status |-> r.status, events |-> r.events, learned |-> <<>>, body |-> <<>>,
               prior |-> ABSENT, again |-> FALSE]
    /\ hub' = Broadcast(hub, r.events)
    /\ UNCHANGED <<now, driver, trades, stat, conn>>
    /\ UNCHANGED memorySide

TradeInit ==
    /\ trades = {}
    /\ now = 1
    /\ driver \in {"rejects", "binds_null"}
    /\ req = NoRequest
    /\ out = [status |-> 0, events |-> <<>>, learned |-> <<>>, body |-> <<>>,
              prior |-> ABSENT, again |-> FALSE]
    /\ signals = {}
    /\ hub = HubOff
    /\ stat = NoStat
    /\ conn = ClientOff
    /\ MemoryIdle

Tick ==
    /\ now < MaxNow
    /\ now' = now + 1
    /\ UNCHANGED tradeSide
    /\ UNCHANGED memorySide

CreateOrUpdateTrade ==
    \E b \in PostBodies : \E r \in PostTrades(trades, b, now) :
        Respond(Request("POST", ABSENT, ABSENT, TRUE, b), r, Submitted(trades, b))

UpdateTradeFields ==
    \E b \in PatchBodies : \E r \in PatchTrade(trades, b, now) :
        Respond(Request("PATCH", ABSENT, ABSENT, TRUE, b), r, FALSE)

Webhook ==
    \E p \in WebhookPayloads : \E r \in WebhookTrade(trades, p, now, driver) :
        Respond(Request("WEBHOOK", p.type, p.secret, p.hasTrade, p.trade), r, FALSE)

TradeNext == Tick \/ CreateOrUpdateTrade \/ UpdateTradeFields \/ Webhook

TradeSpec == TradeInit /\ [][TradeNext]_vars

TradeIdle ==
    /\ trades = {}
    /\ driver = "rejects"
    /\ req = NoRequest
    /\ out = [status |-> 0, events |-> <<>>, learned |-> <<>>, body |-> <<>>,
              prior |-> ABSENT, again |-> FALSE]
    /\ signals = {}
    /\ hub = HubOff
    /\ stat = NoStat
    /\ conn = ClientOff

\* two clients that loaded the page at 0 or 1 and have done nothing yet
MemoryInit ==
    /\ TradeIdle
    /\ now = 1
    /\ local \in [Clients -> { DEFAULT_MEMORY(t) : t \in {0, 1} }]
    /\ cloud = <<>>
    /\ sync = [c \in Clients |-> Idle]
    /\ lastSyncTime = [c \in Clients |-> 0]
    /\ calls = 0

MemoryNext ==
    \/ \E c \in Clients : \E amount \in XpAmounts : AddExperience(c, amount)
    \/ \E c \in Clients : AddLesson(c, c)
    \/ \E c \in Clients : SyncToCloud(c)
    \/ \E c \in Clients : ForceSync(c)
    \/ \E c \in Clients : SyncFromCloud(c)
    \/ \E c \in Clients : MemorySync(c)
    \/ \E c \in Clients : MemoryGet(c)
    \/ \E c \in Clients : SyncDone(c)
    \/ \E c \in Clients : SyncFailed(c)

MemorySpec == MemoryInit /\ [][MemoryNext]_vars

\* Replicas that have been in use for a while.  Each is a memory that addLesson,
\* addExperience and syncs build: ids are readings of the clock, a timestamp is
\* its id's reading or the next one, lessons are in the order they were added.
Chain(from, to, insight) ==
    [ i \in 1..(to - from + 1) |-> Lesson(ToString(from + i - 1), from + i - 1, "UP", insight) ]

Memory(level, currentXp, nextLevelXp, lessons) ==
    [level |-> level, currentXp |-> currentXp, nextLevelXp |-> nextLevelXp,
     brainVersion |-> IF level = 1 THEN "v1.0" ELSE BrainVersion(level), lessons |-> lessons]

\* loaded at 0, one lesson
Young == Memory(1, 50, 100, <<Origin(0), Lesson("2", 2, "UP", "c1")>>)
\* the same client one lesson later
Recent == Memory(1, 50, 100, <<Origin(0), Lesson("2", 2, "UP", "c1"), Lesson("50", 50, "UP", "c1")>>)
\* a client that holds Young's lesson from a sync and has 50 entries
Veteran ==
    Memory(3, 0, 225, <<Origin(0), Lesson("1", 2, "UP", "c2"), Lesson("2", 2, "UP", "c1")>>
                      \o Chain(3, LessonCap - 1, "c2"))
\* a client loaded at 3 that has added 49 lessons and never synced
Loner == Memory(1, 0, 100, <<Origin(3)>> \o Chain(3, LessonCap + 1, "c3"))

Grown == {Young, Recent, Veteran, Loner}

\* the row the server holds after a first sync of memory
FirstRow(memory, t) == SyncRow(<<>>, memory, t)

MergeInit ==
    /\ TradeIdle
    /\ now = LessonCap + 1
    /\ local \in { [c \in Clients |-> IF c = "c1" THEN a ELSE b] :
                    a \in {Young, Recent}, b \in {Veteran, Loner} }
    /\ cloud \in { <<>>, << FirstRow(Recent, LessonCap) >> }
    /\ sync = [c \in Clients |-> Idle]
    /\ lastSyncTime = [c \in Clients |-> 0]
    /\ calls = 0

MergeNext ==
    \/ \E c \in Clients : AddLesson(c, c)
    \/ \E c \in Clients : SyncToCloud(c)
    \/ \E c \in Clients : MemorySync(c)
    \/ \E c \in Clients : SyncDone(c)
    \/ \E c \in Clients : SyncFailed(c)

MergeSpec == MergeInit /\ [][MergeNext]_vars

----------------------------------------------------------------------------
(* The event stream as a state machine: subscribers come and go while the  *)
(* trade webhook and the signal webhook mutate the store.                  *)

MaxLog == 3
MaxBeats == 1

\* the heartbeats written so far, to all connections together
Beats(h) ==
    Len(SelectSeq(h.wire["s1"] \o h.wire["s2"], LAMBDA e : e.event = "heartbeat"))

\* app.get('/api/stream'): connected is written, the response joins sseClients, the
\* snapshot is read and written as init, the heartbeat interval is started
Subscribe(s) ==
    /\ hub.wire[s] = <<>>
    /\ \E init \in Snapshots(trades, signals) :
          hub' = [hub EXCEPT !.clients = Joined(hub, s),
                             !.timers = @ \cup {s},
                             !.wire[s] = << Event("connected", [status |-> "connected",
                                                                timestamp |-> now]),
                                            Event("init", init) >>,
                             !.since[s] = Len(hub.log)]
    /\ UNCHANGED <<trades, now, driver, req, out, signals, stat, conn>>
    /\ UNCHANGED memorySide

\* req.on('close'): clearInterval(heartbeat); sseClients.delete(res)
Disconnect(s) ==
    /\ hub.wire[s] # <<>> /\ s \notin hub.closed
    /\ hub' = [hub EXCEPT !.clients = Left(hub, s), !.timers = @ \ {s},
                          !.closed = @ \cup {s}]
    /\ UNCHANGED <<trades, now, driver, req, out, signals, stat, conn>>
    /\ UNCHANGED memorySide

\* the interval of a connection fires
Heartbeat(s) ==
    /\ s \in hub.timers
    /\ Beats(hub) < MaxBeats
    /\ hub' = [hub EXCEPT !.wire[s] = Append(@, Event("heartbeat", [timestamp |-> now]))]
    /\ UNCHANGED <<trades, now, driver, req, out, signals, stat, conn>>
    /\ UNCHANGED memorySide

\* an open and a close of a trade, and the same close under a wrong secret
StreamPayloads ==
    LET sent == { p \in WebhookPayloads :
                    /\ p.secret = WEBHOOK_SECRET /\ p.hasTrade
                    /\ \/ p.type = "TRADE_OPEN"
                       \/ /\ p.type = "TRADE_CLOSE" /\ p.trade.direction = "LONG"
                          /\ p.trade.exitPrice # None /\ p.trade.pnl = None }
    IN  sent \cup { [p EXCEPT !.secret = "wrong"] : p \in { q \in sent : q.type = "TRADE_CLOSE" } }

StreamWebhook ==
    /\ Len(hub.log) < MaxLog
    /\ \E p \in StreamPayloads : \E r \in WebhookTrade(trades, p, now, driver) :
          Respond(Request("WEBHOOK", p.type, p.secret, p.hasTrade, p.trade), r, FALSE)

StreamSignals ==
    { p \in SignalPayloads :
        \/ p.secret # WEBHOOK_SECRET /\ p.type = "SIGNAL_UPDATE"
        \/ /\ p.secret = WEBHOOK_SECRET /\ p.hasSignal
           /\ p.type = "SIGNAL_NEW" /\ p.signal.status = ABSENT }

StreamSignal ==
    /\ Len(hub.log) < MaxLog
    /\ \E p \in StreamSignals : RespondSignal(p, WebhookSignal(signals, p, now))

StreamInit ==
    /\ trades = {}
    /\ now = 1
    /\ driver = "rejects"
    /\ req = NoRequest
    /\ out = [status |-> 0, events |-> <<>>, learned |-> <<>>, body |-> <<>>,
              prior |-> ABSENT, again |-> FALSE]
    /\ signals = {}
    /\ hub = [HubOff EXCEPT !.on = TRUE]
    /\ stat = NoStat
    /\ conn = ClientOff
    /\ MemoryIdle

StreamNext ==
    \/ \E s \in Subscribers : Subscribe(s)
    \/ \E s \in Subscribers : Disconnect(s)
    \/ \E s \in Subscribers : Heartbeat(s)
    \/ StreamWebhook
    \/ StreamSignal

StreamSpec == StreamInit /\ [][StreamNext]_vars

----------------------------------------------------------------------------
(* Claims about the trade store *)

RowOf(id) == getTradeById(trades, id)

\* C1: every stored trade has closedAt non-null if and only if its outcome is not OPEN.
C1_ClosedAtIffNotOpen ==
    \A r \in trades : (r.closed_at # None) <=> (r.outcome # "OPEN")

\* a bare upsert: POST /api/trades or webhook TRADE_OPEN that reached the table
BareUpsert(rq, o) ==
    \/ rq.op = "POST" /\ o.status = 201
    \/ rq.op = "WEBHOOK" /\ rq.type = "TRADE_OPEN" /\ o.status = 200

C3_UpsertIdempotent ==
    \A b \in PostBodies : \A r1 \in PostTrades(trades, b, now) :
        \A t2 \in {now, now + 1} : \A r2 \in PostTrades(r1.trades, b, t2) :
            /\ Cardinality({ r \in r2.trades : r.id = b.id }) = 1
            /\ r2.trades = r1.trades

\* C3 witness: a payload submitted before has been submitted again.
C3_Witness == req.op = "POST" /\ out.again /\ out.status = 201 /\ HasId(trades, req.id)

\* the pnl the invariant of the data model gives a stored row
DerivedPnl(r) ==
    (IF r.direction = "LONG" THEN r.exit_price[1] - r.entry_price
     ELSE r.entry_price - r.exit_price[1]) * r.leverage

\* C4: a trade submitted through any ingestion entry point with entry, exit,
\* direction and leverage and without pnl, pnlPercent and outcome is stored with
\* pnl = (LONG ? exit - entry : entry - exit) x leverage and the outcome of that
\* pnl's sign.
C4_DerivedFieldsComputed ==
    (req.derive /\ out.status \in {200, 201}
        /\ (req.op = "POST" \/ (req.op = "WEBHOOK" /\ req.type = "TRADE_CLOSE")))
        => /\ HasId(trades, req.id)
           /\ RowOf(req.id).exit_price # None
           /\ RowOf(req.id).pnl = DerivedPnl(RowOf(req.id))
           /\ RowOf(req.id).outcome = OutcomeOf(RowOf(req.id).pnl)

ClosedIds == { r.id : r \in { x \in trades : x.outcome \in Closed } }

RECURSIVE PnlOver(_)
PnlOver(ids) ==
    IF ids = {} THEN 0
    ELSE LET i == CHOOSE x \in ids : TRUE IN RowOf(i).pnl + PnlOver(ids \ {i})

ConsistentStats(s) ==
    /\ s.wins + s.losses + s.breakeven = s.totalTrades
    /\ s.totalTrades = Cardinality(ClosedIds)
    /\ s.totalPnl = PnlOver(ClosedIds)

\* C5: the stats snapshot of every reachable store, and every stats_update a handler
\* broadcasts, has wins + losses + breakeven = totalTrades, totalTrades the number of
\* distinct stored trades that are WIN, LOSS or BREAKEVEN and totalPnl the sum of
\* their pnl; a repeated close counts the trade once.
C5_StatsConsistent ==
    /\ ConsistentStats(formatStats(getStats(trades)))
    /\ \A i \in 1..Len(out.events) :
          out.events[i].event = "stats_update" => ConsistentStats(out.events[i].data[1])

\* C5 witness: a close of an already closed trade has been applied and its
\* stats_update counts two closed trades.
C5_Witness ==
    /\ req.closes /\ out.prior \in Closed /\ out.status = 200
    /\ \E i \in 1..Len(out.events) :
          out.events[i].event = "stats_update" /\ out.events[i].data[1].totalTrades = 2

----------------------------------------------------------------------------
(* Claims about the agent memory *)

\* the level thresholds a grant of xp crosses from a memory with nextLevelXp next
RECURSIVE Crossed(_, _)
Crossed(xp, next) == IF xp >= next THEN 1 + Crossed(xp - next, (next * 3) \div 2) ELSE 0

\* grants a total can be split into
Grants == {100, 150, 225}

SameProgress(m1, m2) ==
    /\ m1.level = m2.level /\ m1.currentXp = m2.currentXp
    /\ m1.nextLevelXp = m2.nextLevelXp /\ m1.brainVersion = m2.brainVersion

\* C6: for every memory a client holds and every three grants whose total crosses
\* three or more level thresholds, one addExperience(total) ends in the same level,
\* currentXp, nextLevelXp and brainVersion as the three grants made one by one.
C6_OneGrantEqualsThree ==
    \A c \in Clients : \A g1 \in Grants : \A g2 \in Grants : \A g3 \in Grants :
        Crossed(local[c].currentXp + g1 + g2 + g3, local[c].nextLevelXp) >= 3
            => SameProgress(addExperience(local[c], g1 + g2 + g3),
                            addExperience(addExperience(addExperience(local[c], g1), g2), g3))

\* the replicas of the agent memory: every client's, and the server's once stored
Replicas ==
    { local[c] : c \in Clients }
        \cup (IF cloud = <<>> THEN {} ELSE { MemoryOfRow(cloud[1]) })

LessonIds(m) == { m.lessons[i].id : i \in 1..Len(m.lessons) }

\* C7: for all replicas a and b, merge(a, b) and merge(b, a) have the same level and
\* hold the same lessons (compared by id, which any equality of lesson sets implies).
C7_MergeCommutes ==
    \A a \in Replicas : \A b \in Replicas :
        /\ mergeMemory(a, b).level = mergeMemory(b, a).level
        /\ LessonIds(mergeMemory(a, b)) = LessonIds(mergeMemory(b, a))

\* C8: for all replicas a and b, merge(a, merge(a, b)) equals merge(a, b) in level,
\* currentXp, nextLevelXp, brainVersion and lessons.
C8_MergeIdempotent ==
    \A a \in Replicas : \A b \in Replicas :
        mergeMemory(a, mergeMemory(a, b)) = mergeMemory(a, b)

\* C9: for all replicas a, b and c, merge(merge(a, b), c) and merge(a, merge(b, c))
\* have the same level, currentXp and nextLevelXp and hold the same lessons
\* (compared by id).
C9_MergeAssociates ==
    \A a \in Replicas : \A b \in Replicas : \A c \in Replicas :
        LET l == mergeMemory(mergeMemory(a, b), c)
            r == mergeMemory(a, mergeMemory(b, c))
        IN  /\ l.level = r.level /\ l.currentXp = r.currentXp
            /\ l.nextLevelXp = r.nextLevelXp
            /\ LessonIds(l) = LessonIds(r)

\* C10: whatever addLesson calls and syncs have happened, every replica holds at
\* most 50 lessons and its first lesson is the origin lesson.
C10_CappedWithOrigin ==
    \A m \in Replicas :
        /\ Len(m.lessons) <= LessonCap
        /\ m.lessons[1].id = "init-1"

----------------------------------------------------------------------------
(* Claims about the sync protocol *)

\* C11: a replica never has two sync calls (syncToCloud or syncFromCloud, from the
\* timer, a level-up, a visibility change or forceSync) in flight; while one is in
\* flight no other starts, a call that returns at the guard adds no request and
\* leaves the server's row alone, and no sync starts without a call (nothing is
\* queued for later).
C11_OneSyncPerReplica ==
    /\ [](\A c \in Clients : Len(sync[c].flights) <= 1)
    /\ [][ \A c \in Clients :
             /\ sync[c].inProgress =>
                   /\ Len(sync'[c].flights) <= Len(sync[c].flights)
                   /\ (sync'[c].skipped /\ ~sync[c].skipped)
                          => (cloud' = cloud /\ sync'[c].flights = sync[c].flights)
             /\ calls' = calls => Len(sync'[c].flights) <= Len(sync[c].flights)
         ]_vars

\* C11 witness: a sync call of a client returned at the guard while another call of
\* that client is in flight.
C11_Witness ==
    \E c \in Clients : sync[c].inProgress /\ sync[c].skipped /\ Len(sync[c].flights) = 1

SameMemory(m1, m2) ==
    /\ m1.level = m2.level /\ m1.currentXp = m2.currentXp
    /\ m1.nextLevelXp = m2.nextLevelXp /\ m1.brainVersion = m2.brainVersion
    /\ LessonIds(m1) = LessonIds(m2)

\* C12: when a syncToCloud round trip completes and nothing was written to the
\* local memory or to the server's row in between, the local memory and the
\* server's row have the same level, currentXp, nextLevelXp and brainVersion and
\* hold the same lessons (compared by id).
C12_RoundTripConverges ==
    [][ \A c \in Clients : \A k \in Flights(c, "toCloud", "answered") :
            ( /\ SyncDone(c)
              /\ local[c] = sync[c].flights[k].memory[1]
              /\ cloud # <<>> /\ MemoryOfRow(cloud[1]) = sync[c].flights[k].data[1] )
                => SameMemory(local'[c], MemoryOfRow(cloud'[1]))
      ]_vars

\* C20: what addLesson and addExperience gave the local memory while a sync was in
\* flight is still there when the sync has saved its merge: every lesson stays, the
\* level does not fall, and at the same level the xp does not fall.
C20_NoLocalUpdateLost ==
    [][ \A c \in Clients :
            SyncDone(c) =>
                /\ LessonIds(local[c]) \subseteq LessonIds(local'[c])
                /\ local'[c].level >= local[c].level
                /\ local'[c].level = local[c].level
                      => local'[c].currentXp >= local[c].currentXp
      ]_vars

----------------------------------------------------------------------------
(* The signals table as a state machine: calls of the signal webhook *)

SignalWebhook ==
    \E p \in SignalPayloads : RespondSignal(p, WebhookSignal(signals, p, now))

SignalNext == Tick \/ SignalWebhook

SignalSpec == TradeInit /\ [][SignalNext]_vars

----------------------------------------------------------------------------
(* The client: TradeService (src/services/tradeService.ts).  Its           *)
(* data.trades is what its event handlers make of the events written to    *)
(* its connection, in order.                                               *)

ListCap == 99
MaxReconnectAttempts == 5
MaxTimers == 3

\* findIndex(t => t.id === id): the first index holding id, 0 when none does
FindIndex(list, id) ==
    IF \E i \in 1..Len(list) : list[i].id = id
    THEN CHOOSE i \in 1..Len(list) :
            list[i].id = id /\ \A j \in 1..(i - 1) : list[j].id # id
    ELSE 0

\* [trade, ...list.slice(0, 99)]
Prepend(trade, list) ==
    <<trade>> \o SubSeq(list, 1, IF Len(list) < ListCap THEN Len(list) ELSE ListCap)

\* data.trades after the handler of event e has run on list
OnEvent(list, e) ==
    LET trade == e.data[1]
        existingIndex == FindIndex(list, trade.id)
    IN  IF e.event = "init" THEN trade.trades
        ELSE IF e.event = "trade_open" THEN Prepend(trade, list)
        ELSE IF e.event = "trade_close" THEN
            IF existingIndex > 0 THEN [list EXCEPT ![existingIndex] = trade]
            ELSE Prepend(trade, list)
        ELSE IF e.event = "trade_update" THEN
            IF existingIndex > 0 THEN [list EXCEPT ![existingIndex] = trade] ELSE list
        ELSE list

\* data.trades of a client that has received the writes w
RECURSIVE ClientTrades(_)
ClientTrades(w) ==
    IF w = <<>> THEN <<>> ELSE OnEvent(ClientTrades(SubSeq(w, 1, Len(w) - 1)), w[Len(w)])

\* private handleReconnect(): one more timer that will call connect(), unless
\* the attempts are used up
handleReconnect(c) ==
    IF c.reconnectAttempts >= MaxReconnectAttempts THEN c
    ELSE [c EXCEPT !.reconnectAttempts = @ + 1, !.timers = @ + 1]

\* connect(): the present stream is closed and a new one is created; when the
\* constructor of EventSource throws, the closed one stays in the field
connect(c, thrown) ==
    IF thrown
    THEN handleReconnect([c EXCEPT !.eventSource = IF @ = "null" THEN "null" ELSE "closed",
                                    !.connected = FALSE])
    ELSE [c EXCEPT !.eventSource = "connecting"]

\* disconnect()
disconnect(c) == [c EXCEPT !.eventSource = "null", !.connected = FALSE]

Live(c) == c.eventSource \in {"connecting", "open"}

\* the application calls tradeService.connect()
AppConnect ==
    /\ \E thrown \in BOOLEAN :
          /\ thrown => conn.timers < MaxTimers
          /\ conn' = [connect(conn, thrown) EXCEPT !.released = FALSE]
    /\ UNCHANGED <<trades, now, driver, req, out, signals, hub, stat>>
    /\ UNCHANGED memorySide

\* the application calls tradeService.disconnect()
AppDisconnect ==
    /\ conn' = [disconnect(conn) EXCEPT !.released = TRUE]
    /\ UNCHANGED <<trades, now, driver, req, out, signals, hub, stat>>
    /\ UNCHANGED memorySide

\* eventSource.onopen
OnOpen ==
    /\ conn.eventSource = "connecting"
    /\ conn' = [conn EXCEPT !.eventSource = "open", !.connected = TRUE,
                            !.reconnectAttempts = 0]
    /\ UNCHANGED <<trades, now, driver, req, out, signals, hub, stat>>
    /\ UNCHANGED memorySide

\* eventSource.onerror: the browser retries the stream or gives it up
OnError ==
    /\ Live(conn)
    /\ conn.timers < MaxTimers
    /\ \E after \in {"connecting", "closed"} :
          conn' = handleReconnect([conn EXCEPT !.eventSource = after, !.connected = FALSE])
    /\ UNCHANGED <<trades, now, driver, req, out, signals, hub, stat>>
    /\ UNCHANGED memorySide

\* a timer set by handleReconnect fires: () => this.connect()
TimerFires ==
    /\ conn.timers > 0
    /\ \E thrown \in BOOLEAN :
          conn' = connect([conn EXCEPT !.timers = @ - 1], thrown)
    /\ UNCHANGED <<trades, now, driver, req, out, signals, hub, stat>>
    /\ UNCHANGED memorySide

\* the service after its constructor, which calls connect()
ClientInit ==
    /\ trades = {}
    /\ now = 1
    /\ driver = "rejects"
    /\ req = NoRequest
    /\ out = [status |-> 0, events |-> <<>>, learned |-> <<>>, body |-> <<>>,
              prior |-> ABSENT, again |-> FALSE]
    /\ signals = {}
    /\ hub = HubOff
    /\ stat = NoStat
    /\ \E thrown \in BOOLEAN : conn = connect(ClientOff, thrown)
    /\ MemoryIdle

ClientNext ==
    \/ AppConnect
    \/ AppDisconnect
    \/ OnOpen
    \/ OnError
    \/ TimerFires

ClientSpec == ClientInit /\ [][ClientNext]_vars

----------------------------------------------------------------------------
(* Statistics on the stream: subscribers listen while the trade webhook    *)
(* closes and updates a trade                                              *)

StatsPayloads ==
    { p \in WebhookPayloads :
        /\ p.secret = WEBHOOK_SECRET /\ p.hasTrade
        /\ \/ p.type = "TRADE_UPDATE"
           \/ /\ p.type = "TRADE_CLOSE" /\ p.trade.direction = "LONG"
              /\ p.trade.exitPrice # None }

StatsInit ==
    /\ trades = {}
    /\ now = 1
    /\ driver \in {"rejects", "binds_null"}
    /\ req = NoRequest
    /\ out = [status |-> 0, events |-> <<>>, learned |-> <<>>, body |-> <<>>,
              prior |-> ABSENT, again |-> FALSE]
    /\ signals = {}
    /\ hub = [HubOff EXCEPT !.on = TRUE]
    /\ stat = NoStat
    /\ conn = ClientOff
    /\ MemoryIdle

StatsWebhook ==
    /\ Len(hub.log) < MaxLog
    /\ \E p \in StatsPayloads : \E r \in WebhookTrade(trades, p, now, driver) :
          Respond(Request("WEBHOOK", p.type, p.secret, p.hasTrade, p.trade), r, FALSE)

StatsNext ==
    \/ \E s \in Subscribers : Subscribe(s)
    \/ \E s \in Subscribers : Disconnect(s)
    \/ StatsWebhook

StatsSpec == StatsInit /\ [][StatsNext]_vars

----------------------------------------------------------------------------
(* Failing analysis: analyzeTrade has no try of its own, so a              *)
(* learningDb.insert that throws (a write the database refuses) leaves     *)
(* analyzeTrade through the handler's catch.  The first insert is the one  *)
(* that throws.                                                            *)

\* app.post('/api/trades') when analyzeTrade throws: the insert has run, the two
\* broadcasts and the 201 have not (server.ts:358-373)
PostTradesThrown(T, b, t) ==
    { Result(r.trades, 500, <<>>, <<>>, <<>>) :
        r \in { x \in PostTrades(T, b, t) : x.learned # <<>> } }

\* TRADE_CLOSE when analyzeTrade throws: the write, trade_close and stats_update
\* have run, analyzeTrade's own learning_update and the 200 have not
\* (server.ts:182-187, 223-229, 249-252)
WebhookTradeThrown(T, p, t, drv) ==
    { Result(r.trades, 500, SubSeq(r.events, 1, 2), <<>>, <<>>) :
        r \in { x \in WebhookTrade(T, p, t, drv) :
                  p.type = "TRADE_CLOSE" /\ x.status = 200 /\ x.learned # <<>> } }

FaultPosts == { b \in PostBodies : b.id = "t2" }

PostAnalysisThrows ==
    /\ Len(hub.log) < MaxLog
    /\ \E b \in FaultPosts : \E r \in PostTradesThrown(trades, b, now) :
          Respond(Request("POST", ABSENT, ABSENT, TRUE, b), r, Submitted(trades, b))

WebhookAnalysisThrows ==
    /\ Len(hub.log) < MaxLog
    /\ \E p \in StreamPayloads : \E r \in WebhookTradeThrown(trades, p, now, driver) :
          Respond(Request("WEBHOOK", p.type, p.secret, p.hasTrade, p.trade), r, FALSE)

FaultNext ==
    \/ \E s \in Subscribers : Subscribe(s)
    \/ StreamWebhook
    \/ PostAnalysisThrows
    \/ WebhookAnalysisThrows

FaultSpec == StreamInit /\ [][FaultNext]_vars

----------------------------------------------------------------------------
(* A stalled peer: client.write(message) is called for every member of     *)
(* sseClients with its return value ignored (server.ts:30-32), so what the *)
(* peer does not take stays queued on its response.                        *)

\* the peer of s stops reading
Stall(s) ==
    /\ s \in hub.clients /\ s \notin hub.stalled
    /\ hub' = [hub EXCEPT !.stalled = @ \cup {s}, !.acked[s] = Len(hub.wire[s])]
    /\ UNCHANGED <<trades, now, driver, req, out, signals, stat, conn>>
    /\ UNCHANGED memorySide

\* the writes queued on the response of s
Pending(h, s) == IF s \in h.stalled THEN Len(h.wire[s]) - h.acked[s] ELSE 0

StallNext ==
    \/ \E s \in Subscribers : Subscribe(s)
    \/ \E s \in Subscribers : Stall(s)
    \/ StreamWebhook

StallSpec == StreamInit /\ [][StallNext]_vars

----------------------------------------------------------------------------
(* Losing streaks: the trade webhook on a store that already holds two     *)
(* losses, closed through the webhook before the server's clock read 1     *)

LossIds == {"t1", "t3"}

\* payload.trade of a TRADE_CLOSE that reports a loss, or leaves a win to be derived
LossCloses ==
    { [b EXCEPT !.id = i] :
        b \in { c \in CloseBodies : c.direction = "LONG" /\ c.exitPrice # None },
        i \in LossIds }

LossPayloads ==
    { [secret |-> WEBHOOK_SECRET, type |-> "TRADE_OPEN", hasTrade |-> TRUE, trade |-> b] :
        b \in OpenBodies }
    \cup { [secret |-> WEBHOOK_SECRET, type |-> "TRADE_CLOSE", hasTrade |-> TRUE, trade |-> b] :
        b \in LossCloses }

EarlierLosses ==
    { CloseRow([b EXCEPT !.id = i], 0) :
        b \in { c \in CloseBodies : c.direction = "LONG" /\ c.exitPrice # None
                                      /\ c.outcome = "LOSS" },
        i \in {"t8", "t9"} }

LossInit ==
    /\ trades = EarlierLosses
    /\ now = 1
    /\ driver \in {"rejects", "binds_null"}
    /\ req = NoRequest
    /\ out = [status |-> 0, events |-> <<>>, learned |-> <<>>, body |-> <<>>,
              prior |-> ABSENT, again |-> FALSE]
    /\ signals = {}
    /\ hub = HubOff
    /\ stat = NoStat
    /\ conn = ClientOff
    /\ MemoryIdle

LossWebhook ==
    \E p \in LossPayloads : \E r \in WebhookTrade(trades, p, now, driver) :
        Respond(Request("WEBHOOK", p.type, p.secret, p.hasTrade, p.trade), r, FALSE)

LossNext == Tick \/ LossWebhook

LossSpec == LossInit /\ [][LossNext]_vars

----------------------------------------------------------------------------
(* Strategy weights as a state machine: a stats row is formatted by the    *)
(* server for GET /api/stats and weighed by the client                     *)

WeightInit ==
    /\ trades = {}
    /\ now = 1
    /\ driver = "rejects"
    /\ req = NoRequest
    /\ out = [status |-> 0, events |-> <<>>, learned |-> <<>>, body |-> <<>>,
              prior |-> ABSENT, again |-> FALSE]
    /\ signals = {}
    /\ hub = HubOff
    /\ stat \in { [NoStat EXCEPT !.row = <<r>>] : r \in StrategyStats }
    /\ conn = ClientOff
    /\ MemoryIdle

\* app.get('/api/stats'): strategyStats.map(formatStrategyStats)
GetStats ==
    /\ stat.server = <<>>
    /\ stat' = [stat EXCEPT !.server = << formatStrategyStats(stat.row[1]).weight >>]
    /\ UNCHANGED <<trades, now, driver, req, out, signals, hub, conn>>
    /\ UNCHANGED memorySide

\* the client weighs the same row
CalculateWeight ==
    /\ stat.client = <<>>
    /\ LET r == stat.row[1]
       IN  stat' = [stat EXCEPT !.client =
                       << calculateStrategyWeight(r.win_count, r.loss_count,
                                                  r.avg_win, r.avg_loss) >>]
    /\ UNCHANGED <<trades, now, driver, req, out, signals, hub, conn>>
    /\ UNCHANGED memorySide

WeightNext == GetStats \/ CalculateWeight

WeightSpec == WeightInit /\ [][WeightNext]_vars

----------------------------------------------------------------------------
(* Claims about the event stream *)

\* the live data events among the writes w: everything but connected, init and heartbeat
DataEvents(w) == SelectSeq(w, LAMBDA e : e.event \notin {"connected", "init", "heartbeat"})

\* the events broadcast after position n of the observer's log
Later(n) == SubSeq(hub.log, n + 1, Len(hub.log))

\* C13: a connection that has subscribed and not yet closed has received connected,
\* then init, then exactly the events broadcast since it subscribed, in the order
\* of the broadcasts; and the step in which it subscribes changes neither table,
\* broadcasts nothing and writes an init that is a snapshot of the tables at that
\* moment, so no mutation falls between the snapshot and the first live event.
C13_InitThenEveryEvent ==
    /\ [](\A s \in Subscribers :
            (hub.wire[s] # <<>> /\ s \notin hub.closed) =>
                /\ Len(hub.wire[s]) >= 2
                /\ hub.wire[s][1].event = "connected"
                /\ hub.wire[s][2].event = "init"
                /\ DataEvents(hub.wire[s]) = Later(hub.since[s]))
    /\ [][ \A s \in Subscribers :
             (hub.wire[s] = <<>> /\ hub'.wire[s] # <<>>) =>
                 /\ trades' = trades /\ signals' = signals /\ hub'.log = hub.log
                 /\ hub'.since[s] = Len(hub.log)
                 /\ hub'.wire[s][2].data[1] \in Snapshots(trades, signals)
          ]_vars

\* a subscriber that connected after the store had been mutated and has since
\* received two live events
C13_Witness ==
    \E s \in Subscribers :
        /\ s \notin hub.closed
        /\ hub.since[s] > 0
        /\ Len(DataEvents(hub.wire[s])) >= 2
        /\ hub.wire[s][2].data[1].trades # <<>>

\* C14: nothing is written to a connection whose close has been handled, neither
\* a data event nor a heartbeat, and every connection that stays open is written
\* every event broadcast from then on.
C14_ClosedGetsNothing ==
    [][ /\ \A s \in hub.closed : hub'.wire[s] = hub.wire[s]
        /\ hub.closed # {} =>
              \A s \in Subscribers :
                  (hub.wire[s] # <<>> /\ s \notin hub'.closed) =>
                      DataEvents(hub'.wire[s])
                          = DataEvents(hub.wire[s])
                              \o SubSeq(hub'.log, Len(hub.log) + 1, Len(hub'.log))
      ]_vars

\* one connection has closed and events broadcast after that reached the other
C14_Witness ==
    \E s \in hub.closed : \E o \in Subscribers \ hub.closed :
        /\ hub.wire[o] # <<>>
        /\ Len(Later(hub.since[s])) > Len(DataEvents(hub.wire[s]))
        /\ Len(DataEvents(hub.wire[o])) > 0

\* C16: a call of the trade webhook or of the signal webhook with a secret other
\* than WEBHOOK_SECRET is answered 401 and leaves the trades table and the signals
\* table as they were, inserts no learning event and writes nothing to any
\* subscriber.
C16_WrongSecretNoEffect ==
    [][ ((StreamWebhook \/ StreamSignal) /\ req'.secret # WEBHOOK_SECRET) =>
            /\ out'.status = 401
            /\ trades' = trades /\ signals' = signals
            /\ out'.learned = <<>> /\ out'.events = <<>>
            /\ hub'.wire = hub.wire /\ hub'.log = hub.log
      ]_vars

\* a webhook call was refused while trades and signals were stored and a subscriber
\* was listening
C16_Witness ==
    /\ req.op \in {"WEBHOOK", "SIGNAL"} /\ req.secret = "wrong" /\ out.status = 401
    /\ trades # {} /\ signals # {} /\ hub.clients # {}

----------------------------------------------------------------------------
(* Claims about the webhooks *)

\* C17: a TRADE_CLOSE of the trade webhook for an id that was not stored is
\* answered 200 and leaves a row under that id with pair, direction and entry
\* price, an outcome among WIN, LOSS and BREAKEVEN and a closed_at that is not
\* NULL, and the first event it broadcasts is trade_close carrying that row.
C17_CloseOfUnknownId ==
    (/\ req.op = "WEBHOOK" /\ req.type = "TRADE_CLOSE"
     /\ req.secret = WEBHOOK_SECRET /\ req.hasTrade /\ out.prior = ABSENT)
    => /\ out.status = 200
       /\ HasId(trades, req.id)
       /\ LET row == getTradeById(trades, req.id)
          IN  /\ row.outcome \in Closed
              /\ row.closed_at # None
              /\ row.exit_price # None
              /\ row.pair # ABSENT /\ row.direction \in Directions
              /\ out.events # <<>>
              /\ out.events[1] = Event("trade_close", formatTrade(row))

\* a TRADE_CLOSE for an unknown id that left the outcome to the server
C17_Witness ==
    /\ req.op = "WEBHOOK" /\ req.type = "TRADE_CLOSE" /\ req.secret = WEBHOOK_SECRET
    /\ req.hasTrade /\ out.prior = ABSENT /\ out.status = 200
    /\ req.derive
    /\ HasId(trades, req.id) /\ getTradeById(trades, req.id).outcome = "WIN"

\* the status of the signal stored under id, ABSENT when there is none
StatusOf(S, id) == IF \E r \in S : r.id = id THEN (CHOOSE r \in S : r.id = id).status ELSE ABSENT

\* C18: no step changes the status of a signal that is WON, LOST or EXPIRED, and
\* no step takes a TRIGGERED signal back to WATCHING.
C18_StatusOnlyForward ==
    [][ \A id \in SignalIds :
          /\ StatusOf(signals, id) \in {"WON", "LOST", "EXPIRED"}
                => StatusOf(signals', id) = StatusOf(signals, id)
          /\ StatusOf(signals, id) = "TRIGGERED" => StatusOf(signals', id) # "WATCHING"
      ]_vars

----------------------------------------------------------------------------
(* Claims about the strategy weight *)

\* clamp(0.1, 5.0, wins x |avgWin| / (losses x |avgLoss| + 1)) of a stats row
ClampedRatio(r) ==
    Clamp(Ratio(r.win_count * Abs(r.avg_win), r.loss_count * Abs(r.avg_loss) + 1))

InRange(w) == AtMost(Ratio(1, 10), w) /\ AtMost(w, Ratio(5, 1))

\* C19: the weight the server reports for a stats row and the weight the client
\* computes from it both lie in [0.1, 5.0], both equal the clamped ratio of the
\* row, and they are the same value.
C19_WeightsAgree ==
    (stat.server # <<>> /\ stat.client # <<>>) =>
        /\ InRange(stat.server[1]) /\ InRange(stat.client[1])
        /\ SameValue(stat.client[1], ClampedRatio(stat.row[1]))
        /\ SameValue(stat.server[1], ClampedRatio(stat.row[1]))
        /\ SameValue(stat.server[1], stat.client[1])

----------------------------------------------------------------------------
(* Claims about the learning events *)

\* the lengths the run of LOSS can have at the head of the closed trades ordered
\* newest first (rows of equal timestamp come in either order)
ClosedRuns(T) ==
    { LeadingLosses(o) :
        o \in { q \in Orderings({ r \in T : r.outcome \in Closed }) : IsNewestFirst(q) } }

----------------------------------------------------------------------------
(* Claims about what readers of the trade store see *)

\* a trade, as a row or as formatTrade of one, that has an exit price while OPEN
HalfClosed(exitPrice, outcome) == exitPrice # None /\ outcome = "OPEN"

\* C21: no stored trade, no trade returned by a handler and no trade carried by a
\* broadcast trade event has a non-null exit price while its outcome is OPEN.
C21_NoExitWhileOpen ==
    /\ \A r \in trades : ~HalfClosed(r.exit_price, r.outcome)
    /\ \A i \in 1..Len(out.body) : ~HalfClosed(out.body[i].exitPrice, out.body[i].outcome)
    /\ \A i \in 1..Len(out.events) :
          out.events[i].event \in {"trade_open", "trade_close", "trade_update"}
              => ~HalfClosed(out.events[i].data[1].exitPrice, out.events[i].data[1].outcome)

\* C28: the trade POST /api/trades returns, and the trade its trade_open or
\* trade_close event carries, is the trade stored under that id after the call.
C28_ReturnedIsStored ==
    (req.op = "POST" /\ out.status = 201) =>
        LET stored == formatTrade(getTradeById(trades, req.id))
        IN  /\ out.body = <<stored>>
            /\ \A i \in 1..Len(out.events) :
                  out.events[i].event \in {"trade_open", "trade_close"}
                      => /\ out.events[i].data[1] = stored
                         /\ out.events[i].event = "trade_open" <=> stored.outcome = "OPEN"

\* the stats a subscriber holds after the writes w: those of the last stats_update,
\* or of init when none followed (tradeService.ts:156-160)
HeldStats(w) ==
    LET carrying == SelectSeq(w, LAMBDA e : e.event \in {"init", "stats_update"})
        last == carrying[Len(carrying)]
    IN  IF last.event = "init" THEN last.data[1].stats ELSE last.data[1]

C23_AnalysisFailureSwallowed ==
    [][ (PostAnalysisThrows \/ WebhookAnalysisThrows) =>
            /\ HasId(trades', req'.id) /\ getTradeById(trades', req'.id).outcome \in Closed
            /\ out'.status \in {200, 201}
            /\ \A s \in hub.clients :
                  \E i, j \in (Len(hub.wire[s]) + 1)..Len(hub'.wire[s]) :
                      /\ i < j
                      /\ hub'.wire[s][i].event = "trade_close"
                      /\ hub'.wire[s][j].event = "stats_update"
      ]_vars

\* the number of writes a response may hold for a peer that has stopped reading
PendingCap == 2

\* C24: when a handler broadcasts, every connected subscriber that is not
\* stalled is written every event of the broadcast although another is stalled,
\* the handler runs to its answer, and no response ever holds more than
\* PendingCap writes for its peer.
C24_StalledPeerIsolated ==
    /\ [](\A s \in Subscribers : Pending(hub, s) <= PendingCap)
    /\ [][ (StreamWebhook /\ hub.stalled # {}) =>
              \A s \in hub.clients \ hub.stalled :
                  hub'.wire[s] = hub.wire[s] \o out'.events
          ]_vars

\* C25: an update addressed to an id that is not stored (PATCH /api/trades/:id,
\* webhook TRADE_UPDATE, webhook SIGNAL_UPDATE) is answered 404, changes neither
\* table and broadcasts nothing.
C25_UnknownIdNotFound ==
    [][ (\/ UpdateTradeFields /\ ~HasId(trades, req'.id)
         \/ /\ Webhook /\ req'.type = "TRADE_UPDATE" /\ req'.secret = WEBHOOK_SECRET
            /\ req'.hasTrade /\ ~HasId(trades, req'.id)
         \/ /\ SignalWebhook /\ req'.type = "SIGNAL_UPDATE" /\ req'.secret = WEBHOOK_SECRET
            /\ req'.hasTrade /\ StatusOf(signals, req'.id) = ABSENT)
        => /\ out'.status = 404
           /\ trades' = trades /\ signals' = signals
           /\ out'.events = <<>>
      ]_vars

----------------------------------------------------------------------------
(* Claims about the memory replicas *)

\* C26: the brainVersion of every local replica and of the shared replica is
\* "v{floor(level / 10) + 1}.{level mod 10}" of the same replica's level.
C26_VersionFollowsLevel ==
    /\ \A c \in Clients : local[c].brainVersion = BrainVersion(local[c].level)
    /\ cloud # <<>> => cloud[1].brain_version = BrainVersion(cloud[1].level)

\* C27: while less than SyncCooldown has passed since a replica's last completed
\* sync, no step of that replica starts a new exchange with the server.
C27_CooldownRespected ==
    [][ \A c \in Clients :
          Cooldown(c) => Len(sync'[c].flights) <= Len(sync[c].flights) ]_vars

----------------------------------------------------------------------------
(* Claims about the client *)

\* C29: the trade list of a client never holds two entries with the same id.
C29_ClientIdsDistinct ==
    \A s \in Subscribers :
        LET list == ClientTrades(hub.wire[s])
        IN  \A i, j \in 1..Len(list) : list[i].id = list[j].id => i = j

\* C30: from disconnect() until the application calls connect() again the
\* client holds no event stream and is not marked connected.
C30_ReleasedStaysClosed ==
    conn.released => conn.eventSource = "null" /\ ~conn.connected
====
